---- MODULE Spec2Model ----
(***************************************************************************)
(* Prowlarr-Orionoid bridge: the /api request router (main.api_endpoint,   *)
(* main.search_orionoid), the /health aggregator (main.health_check) and   *)
(* the upstream client (orionoid_client.OrionoidClient).                   *)
(*                                                                         *)
(* Optional[T] values are sequences of length at most one: None is <<>>    *)
(* and a present value v is <<v>>.  Strings the code only compares or      *)
(* tests for emptiness (t, apikey, q, tvdbid, tmdbid) are TLA+ strings;    *)
(* strings the code takes apart (cat, imdbid) are sequences of characters. *)
(* Exception and log messages are sequences of string fragments.           *)
(***************************************************************************)
EXTENDS Integers, Sequences, FiniteSets, TLC

VARIABLES
    orion_client,              \* main.orion_client: TRUE once lifespan built the client
    prowlarr_api_key,          \* settings.prowlarr_api_key (Optional[str])
    now,                       \* wall clock, seconds (time.time(), datetime.now)
    last_successful_search,    \* main.last_successful_search (Optional[datetime])
    health_check_cache,        \* main.health_check_cache (Optional[dict])
    health_check_cache_time,   \* main.health_check_cache_time (Optional[float])
    api,                       \* the /api request being handled and its answer
    hc                         \* the /health request being handled and its answer

vars == <<orion_client, prowlarr_api_key, now, last_successful_search,
          health_check_cache, health_check_cache_time, api, hc>>

-----------------------------------------------------------------------------
(* Bounds of the model *)

\* most streams one upstream reply carries
MaxStreams == 2

-----------------------------------------------------------------------------
(* Program constants *)

default_search_limit == 100
max_search_limit == 1000
\* the default of the limit query parameter when the request carries none
QueryDefaultLimit == 100
\* seconds a cached health result is served
HealthCacheSeconds == 30
\* seconds without a successful search after which search_capability degrades
SearchStaleSeconds == 300

-----------------------------------------------------------------------------
(* Optional values and Python truthiness *)

None == <<>>
Some(x) == <<x>>
IsNone(o) == o = <<>>
Val(o) == o[1]

\* bool(s) for an Optional[str] held as a TLA+ string
TruthyStr(o) == o # None /\ Val(o) # ""
\* bool(s) for an Optional[str] held as a sequence of characters
TruthySeq(o) == o # None /\ Val(o) # <<>>
\* bool(n) for an Optional[int]
TruthyInt(o) == o # None /\ Val(o) # 0

-----------------------------------------------------------------------------
(* Strings the code takes apart *)

Digits == {"0", "1", "2", "3", "4", "5", "6", "7", "8", "9"}

\* str.isdigit() also accepts digit characters that are no decimal digits;
\* "sup2" stands for one of them, SUPERSCRIPT TWO (U+00B2)
DigitChars == Digits \cup {"sup2"}

DigitVal(c) ==
    CASE c = "0" -> 0 [] c = "1" -> 1 [] c = "2" -> 2 [] c = "3" -> 3
      [] c = "4" -> 4 [] c = "5" -> 5 [] c = "6" -> 6 [] c = "7" -> 7
      [] c = "8" -> 8 [] c = "9" -> 9

\* str.split(",")
RECURSIVE SplitComma(_)
SplitComma(s) ==
    IF \E i \in 1..Len(s) : s[i] = ","
    THEN LET i == CHOOSE k \in 1..Len(s) :
                      s[k] = "," /\ \A j \in 1..(k - 1) : s[j] # ","
         IN  <<SubSeq(s, 1, i - 1)>> \o SplitComma(SubSeq(s, i + 1, Len(s)))
    ELSE <<s>>

\* str.isdigit()
IsDigit(tok) == tok # <<>> /\ \A i \in 1..Len(tok) : tok[i] \in DigitChars

\* int(tok) raises ValueError on a token that is not a decimal number
IntRaises(tok) == tok = <<>> \/ \E i \in 1..Len(tok) : tok[i] \notin Digits

\* int(tok) for a decimal token
RECURSIVE ToInt(_)
ToInt(tok) ==
    IF tok = <<>> THEN 0
    ELSE 10 * ToInt(SubSeq(tok, 1, Len(tok) - 1)) + DigitVal(tok[Len(tok)])

\* str.startswith("tt")
StartsWithTT(s) == Len(s) >= 2 /\ s[1] = "t" /\ s[2] = "t"

-----------------------------------------------------------------------------
(* The upstream provider, as the client sees it *)

\* What one POST to the provider ends in: a timeout, a connection failure, a
\* response with a non-2xx status, or a 2xx response with a JSON body
\* {"result": {"status", "message"}, "data"}.
Reply(http, code, status, message, data) ==
    [http |-> http, code |-> code, status |-> status, message |-> message,
     data |-> data]

TransportReplies ==
    {Reply("timeout", 0, "", None, None), Reply("connect", 0, "", None, None),
     Reply("status", 401, "", None, None), Reply("status", 500, "", None, None)}

ErrorReplies ==
    {Reply("ok", 200, "error", m, None) : m \in {None, Some("quota exceeded")}}

\* the "episode" object of a stream's "meta": a key left out is None
EpisodeInfo(season, number) == [season |-> season, number |-> number]

\* A stream record of the provider, by the fields the builder reads:
\* file.name, meta.title, video.quality, video.codec and meta.episode, each
\* None when the key is left out.  _media_type is the key api_endpoint adds
\* to the streams of an uncategorized search.
StreamRecord(id, name, title, quality, codec, episode) ==
    [id |-> id, media_type_tag |-> None, name |-> name, title |-> title,
     quality |-> quality, codec |-> codec, episode |-> episode]

\* a stream record with a file name; its id tells the search that returned it
Stream(media_type, i) ==
    StreamRecord(<<media_type, i>>, Some(<<"f">>), None, None, None,
                 IF media_type = "show" THEN Some(EpisodeInfo(Some(1), Some(2)))
                 ELSE None)

Streams(media_type, n) == [i \in 1..n |-> Stream(media_type, i)]

SearchReplies(media_type) ==
    TransportReplies \cup ErrorReplies
    \cup {Reply("ok", 200, "success", None, None)}          \* "data": null
    \cup {Reply("ok", 200, "success", None, Some(Streams(media_type, n))) :
             n \in 0..MaxStreams}

UserData == [email |-> "user@example.org", premium |-> TRUE, remaining |-> 42]

UserReplies ==
    TransportReplies \cup ErrorReplies
    \cup {Reply("ok", 200, "success", None, None),
          Reply("ok", 200, "success", None, Some(UserData))}

CodeStr(code) == CASE code = 401 -> "401" [] code = 500 -> "500" [] OTHER -> "?"

-----------------------------------------------------------------------------
(* orionoid_client.OrionoidClient *)

\* the result of a client call: a returned JSON body, or a raised exception
Returned(json) == [raised |-> FALSE, exc |-> "", code |-> 0, json |-> json]
Raised(exc, code) ==
    [raised |-> TRUE, exc |-> exc, code |-> code,
     json |-> [status |-> "", message |-> None, data |-> None]]

\* _make_request: post, raise_for_status, json; both except clauses log and
\* re-raise
MakeRequest(reply) ==
    CASE reply.http = "timeout" -> Raised("TimeoutException", 0)
      [] reply.http = "connect" -> Raised("ConnectError", 0)
      [] reply.http = "status"  -> Raised("HTTPStatusError", reply.code)
      [] reply.http = "ok"      ->
            Returned([status |-> reply.status, message |-> reply.message,
                      data |-> reply.data])

\* str(e) of the exception a client call raised
ExcMessage(r) ==
    IF r.exc = "HTTPStatusError" THEN <<r.exc, CodeStr(r.code)>> ELSE <<r.exc>>

\* search_streams: the form fields sent upstream (a field left out is None)
SearchStreamsParams(query, imdb_id, tvdb_id, tmdb_id, media_type, season, episode, limit) ==
    LET ep == media_type = "show" /\ season # None /\ episode # None
    IN  [mode |-> "stream", action |-> "retrieve", type |-> media_type,
         limitcount |-> limit, sort |-> "best",
         query |-> IF TruthyStr(query) THEN query ELSE None,
         idimdb |-> IF TruthySeq(imdb_id) THEN imdb_id ELSE None,
         idtvdb |-> IF TruthyStr(tvdb_id) THEN tvdb_id ELSE None,
         idtmdb |-> IF TruthyStr(tmdb_id) THEN tmdb_id ELSE None,
         numberseason |-> IF ep THEN season ELSE None,
         numberepisode |-> IF ep THEN episode ELSE None,
         videoquality |-> None,
         protocoltorent |-> 1, protocolnzb |-> 1, debridlookup |-> 0]

\* search_streams returns what _make_request returns
SearchStreams(reply) == MakeRequest(reply)

\* get_user_info returns what _make_request returns
GetUserInfo(reply) == MakeRequest(reply)

HealthResult(status, message, responseTime, userInfo) ==
    [status |-> status, message |-> message, responseTime |-> responseTime,
     userInfo |-> userInfo]

\* ClientHealthCheck with the except clauses leaving message and
\* responseTime as initialised
ClientHealthCheckNoTime(reply, start_time, t) ==
    LET r == GetUserInfo(reply)
    IN  IF r.raised
        THEN HealthResult("unhealthy", <<"Unknown error">>, None, None)
        ELSE IF r.json.status = "success" /\ r.json.data # None
        THEN HealthResult("healthy", <<"Connected to Orionoid API">>,
                          Some((t - start_time) * 1000), r.json.data)
        ELSE HealthResult("unhealthy", <<"Orionoid API error">>, None, None)

\* OrionoidClient.health_check, called at start_time and answered at t
ClientHealthCheck(reply, start_time, t) ==
    LET r == GetUserInfo(reply)
        response_time == Some((t - start_time) * 1000)
    IN  IF ~r.raised
        THEN IF r.json.status = "success"
             THEN IF r.json.data = None
                  \* user_data is None: user_data.get raises AttributeError,
                  \* caught by the last except clause
                  THEN HealthResult("unhealthy",
                                    <<"Unexpected error: ", "AttributeError">>,
                                    response_time, None)
                  ELSE HealthResult("healthy", <<"Connected to Orionoid API">>,
                                    response_time,
                                    Some([username |-> Val(r.json.data).email,
                                          premium |-> Val(r.json.data).premium,
                                          apiCallsRemaining |->
                                              Val(r.json.data).remaining]))
             ELSE HealthResult("unhealthy",
                               <<"Orionoid API error: ",
                                 IF r.json.message = None
                                 THEN "API returned error status"
                                 ELSE Val(r.json.message)>>,
                               response_time, None)
        ELSE CASE r.exc = "TimeoutException" ->
                    HealthResult("unhealthy", <<"Connection timeout">>,
                                 response_time, None)
               [] r.exc = "HTTPStatusError" ->
                    HealthResult("unhealthy",
                                 IF r.code \in {401, 403}
                                 THEN <<"Authentication failed - invalid API keys">>
                                 ELSE <<"HTTP error ", CodeStr(r.code)>>,
                                 response_time, None)
               [] r.exc = "ConnectError" ->
                    HealthResult("unhealthy", <<"Cannot connect to Orionoid API">>,
                                 response_time, None)
               [] OTHER ->
                    HealthResult("unhealthy", <<"Unexpected error: ", r.exc>>,
                                 response_time, None)

-----------------------------------------------------------------------------
(* torznab_builder.TorznabBuilder: the documents, by their content *)

Doc(kind, code, description, total, items) ==
    [kind |-> kind, code |-> code, description |-> description,
     total |-> total, items |-> items]

\* build_capabilities
BuildCapabilities == Doc("caps", 0, <<>>, 0, <<>>)

\* build_error
BuildError(code, description) == Doc("error", code, description, 0, <<>>)

CATEGORY_MOVIE == 2000
CATEGORY_MOVIE_SD == 2030
CATEGORY_MOVIE_HD == 2040
CATEGORY_MOVIE_UHD == 2060
CATEGORY_TV == 5000
CATEGORY_TV_SD == 5030
CATEGORY_TV_HD == 5040
CATEGORY_TV_UHD == 5080

\* str.lower() and str.upper(), on the letters the model's strings use
ToLower(c) ==
    CASE c = "D" -> "d" [] c = "H" -> "h" [] c = "K" -> "k" [] c = "S" -> "s"
      [] c = "U" -> "u" [] c = "P" -> "p" [] OTHER -> c

ToUpper(c) ==
    CASE c = "d" -> "D" [] c = "h" -> "H" [] c = "k" -> "K" [] c = "s" -> "S"
      [] c = "u" -> "U" [] c = "p" -> "P" [] c = "c" -> "C" [] c = "a" -> "A"
      [] c = "m" -> "M" [] OTHER -> c

StrLower(s) == [i \in 1..Len(s) |-> ToLower(s[i])]

StrUpper(s) == [i \in 1..Len(s) |-> ToUpper(s[i])]

\* sub in s
Contains(sub, s) ==
    \E i \in 0..(Len(s) - Len(sub)) : SubSeq(s, i + 1, i + Len(sub)) = sub

\* " ".join(parts)
RECURSIVE JoinSpace(_)
JoinSpace(parts) ==
    IF Len(parts) = 1 THEN parts[1]
    ELSE parts[1] \o <<" ">> \o JoinSpace(Tail(parts))

\* bool(d) for the Optional "episode" object: an empty object is false
TruthyEpisode(o) == o # None /\ (Val(o).season # None \/ Val(o).number # None)

\* video_info.get(key, "") for a key that may be left out
GetStr(o) == IF o = None THEN <<>> ELSE Val(o)

\* DetermineCategory with the HD tokens tested before the UHD tokens
DetermineCategoryHdFirst(stream, query_type) ==
    LET quality == StrLower(GetStr(stream.quality))
        is_tv == query_type = "tvsearch" \/ TruthyEpisode(stream.episode)
    IN  IF Contains(<<"1", "0", "8", "0">>, quality)
           \/ Contains(<<"7", "2", "0">>, quality)
           \/ Contains(<<"h", "d">>, quality)
        THEN IF is_tv THEN CATEGORY_TV_HD ELSE CATEGORY_MOVIE_HD
        ELSE IF Contains(<<"2", "1", "6", "0">>, quality)
                \/ Contains(<<"u", "h", "d">>, quality)
                \/ Contains(<<"4", "k">>, quality)
        THEN IF is_tv THEN CATEGORY_TV_UHD ELSE CATEGORY_MOVIE_UHD
        ELSE IF Contains(<<"s", "d">>, quality)
                \/ Contains(<<"4", "8", "0">>, quality)
        THEN IF is_tv THEN CATEGORY_TV_SD ELSE CATEGORY_MOVIE_SD
        ELSE IF is_tv THEN CATEGORY_TV ELSE CATEGORY_MOVIE

\* _determine_category
DetermineCategory(stream, query_type) ==
    LET quality == StrLower(GetStr(stream.quality))
        is_tv == query_type = "tvsearch" \/ TruthyEpisode(stream.episode)
    IN  IF Contains(<<"2", "1", "6", "0">>, quality)
           \/ Contains(<<"u", "h", "d">>, quality)
           \/ Contains(<<"4", "k">>, quality)
        THEN IF is_tv THEN CATEGORY_TV_UHD ELSE CATEGORY_MOVIE_UHD
        ELSE IF Contains(<<"1", "0", "8", "0">>, quality)
                \/ Contains(<<"7", "2", "0">>, quality)
                \/ Contains(<<"h", "d">>, quality)
        THEN IF is_tv THEN CATEGORY_TV_HD ELSE CATEGORY_MOVIE_HD
        ELSE IF Contains(<<"s", "d">>, quality)
                \/ Contains(<<"4", "8", "0">>, quality)
        THEN IF is_tv THEN CATEGORY_TV_SD ELSE CATEGORY_MOVIE_SD
        ELSE IF is_tv THEN CATEGORY_TV ELSE CATEGORY_MOVIE

\* the literal "Unknown"
Unknown == <<"U", "n", "k", "n", "o", "w", "n">>

\* a bracketed tag: f"[{s}]"
Bracketed(s) == <<"[">> \o s \o <<"]">>

\* _build_item: the item of one stream record, by its guid, its title, its
\* category attribute and, for tvsearch, its season and episode attributes
BuildItem(stream, query_type) ==
    LET quality == StrUpper(GetStr(stream.quality))
        codec == StrUpper(GetStr(stream.codec))
        title_parts ==
            (IF TruthySeq(stream.name) THEN <<Val(stream.name)>>
             ELSE IF TruthySeq(stream.title) THEN <<Val(stream.title)>>
             ELSE <<>>)
            \o (IF quality # <<>> THEN <<Bracketed(quality)>> ELSE <<>>)
            \o (IF codec # <<>> THEN <<Bracketed(codec)>> ELSE <<>>)
        tv_attrs == query_type = "tvsearch" /\ TruthyEpisode(stream.episode)
    IN  [guid |-> stream.id,
         title |-> IF title_parts # <<>> THEN JoinSpace(title_parts) ELSE Unknown,
         category |-> DetermineCategory(stream, query_type),
         season |-> IF tv_attrs /\ TruthyInt(Val(stream.episode).season)
                    THEN Val(stream.episode).season ELSE None,
         episode |-> IF tv_attrs /\ TruthyInt(Val(stream.episode).number)
                     THEN Val(stream.episode).number ELSE None]

\* build_search_results: the response total and one item per stream
BuildSearchResults(orion_results, query_type) ==
    Doc("rss", 0, <<>>, Len(orion_results.streams),
        [i \in 1..Len(orion_results.streams) |->
            BuildItem(orion_results.streams[i], query_type)])

-----------------------------------------------------------------------------
(* main: the answers of /api *)

\* Response(content=..., media_type="application/xml"): HTTP 200
XmlResponse(doc) == [http |-> 200, media_type |-> "application/xml", doc |-> doc]

\* a raised HTTPException, answered by the framework as a JSON error
HttpError(status_code, detail) ==
    [http |-> status_code, media_type |-> "application/json",
     doc |-> Doc("http_error", 0, <<detail>>, 0, <<>>)]

\* CheckApiKeyRaises with an absent key let through
CheckApiKeyRaisesOnPresentKeyOnly(apikey) ==
    TruthyStr(prowlarr_api_key) /\ apikey # None /\ apikey # prowlarr_api_key

\* check_api_key: TRUE when it raises HTTPException(403)
CheckApiKeyRaises(apikey) ==
    TruthyStr(prowlarr_api_key) /\ apikey # prowlarr_api_key

Min(a, b) == IF a <= b THEN a ELSE b

\* api_endpoint: limit = min(limit or default_search_limit, max_search_limit)
ClampLimit(limit) ==
    Min(IF TruthyInt(limit) THEN Val(limit) ELSE default_search_limit,
        max_search_limit)

\* CategoryMediaType looking at the first category only
CategoryMediaTypeFirstOnly(cat) ==
    LET toks == SplitComma(Val(cat))
    IN  [raised |-> FALSE,
         media_type |-> IF IsDigit(toks[1]) /\ ~IntRaises(toks[1])
                           /\ ToInt(toks[1]) >= 5000 /\ ToInt(toks[1]) < 6000
                        THEN "show" ELSE "movie"]

\* api_endpoint, t == "search" with a category: the media type searched, or
\* the ValueError int() raises
CategoryMediaType(cat) ==
    LET toks == SplitComma(Val(cat))
        digit == {i \in 1..Len(toks) : IsDigit(toks[i])}
    IN  IF \E i \in digit : IntRaises(toks[i])
        THEN [raised |-> TRUE, media_type |-> ""]
        ELSE [raised |-> FALSE,
              media_type |->
                  IF \E i \in digit : ToInt(toks[i]) >= 5000 /\ ToInt(toks[i]) < 6000
                  THEN "show" ELSE "movie"]

\* ExceptionResponse with the exception left to the framework
ExceptionResponseAsHttp500(message) == HttpError(500, "Internal Server Error")

\* api_endpoint, the last except clause: any other exception becomes an error
\* document
ExceptionResponse(message) == XmlResponse(BuildError(100, message))

\* UnknownFunctionResponse with the unknown function raised as an exception
UnknownFunctionResponseAsException(t) ==
    XmlResponse(BuildError(100, <<"Incorrect parameter: unknown function ", t>>))

\* api_endpoint, the final else: an unknown function
UnknownFunctionResponse(t) ==
    XmlResponse(BuildError(201, <<"Incorrect parameter: unknown function ", t>>))

-----------------------------------------------------------------------------
(* main.search_orionoid *)

\* SearchOrionoidParams with the IMDb id passed on as it came
SearchOrionoidParamsKeepsPrefix(query, imdb_id, tvdb_id, tmdb_id, media_type, season, episode, limit) ==
    LET empty == ~(TruthyStr(query) \/ TruthySeq(imdb_id) \/ TruthyStr(tvdb_id)
                   \/ TruthyStr(tmdb_id))
    IN  SearchStreamsParams(IF empty THEN Some("The Matrix") ELSE query,
                            imdb_id, tvdb_id, tmdb_id, media_type, season,
                            episode, IF empty THEN 1 ELSE limit)

\* SearchOrionoidParams with the validation query only when no id is given,
\* whatever the free text
SearchOrionoidParamsIgnoresQuery(query, imdb_id, tvdb_id, tmdb_id, media_type, season, episode, limit) ==
    LET empty == ~(TruthySeq(imdb_id) \/ TruthyStr(tvdb_id) \/ TruthyStr(tmdb_id))
        imdb2 == IF TruthySeq(imdb_id) /\ StartsWithTT(Val(imdb_id))
                 THEN Some(SubSeq(Val(imdb_id), 3, Len(Val(imdb_id))))
                 ELSE imdb_id
    IN  SearchStreamsParams(IF empty THEN Some("The Matrix") ELSE query,
                            imdb2, tvdb_id, tmdb_id, media_type, season,
                            episode, IF empty THEN 1 ELSE limit)

\* before the upstream call: the validation query for an empty search, the
\* "tt" prefix stripped, then the form fields search_streams sends
SearchOrionoidParams(query, imdb_id, tvdb_id, tmdb_id, media_type, season, episode, limit) ==
    LET empty == ~(TruthyStr(query) \/ TruthySeq(imdb_id) \/ TruthyStr(tvdb_id)
                   \/ TruthyStr(tmdb_id))
        query2 == IF empty THEN Some("The Matrix") ELSE query
        limit2 == IF empty THEN 1 ELSE limit
        imdb2 == IF TruthySeq(imdb_id) /\ StartsWithTT(Val(imdb_id))
                 THEN Some(SubSeq(Val(imdb_id), 3, Len(Val(imdb_id))))
                 ELSE imdb_id
    IN  SearchStreamsParams(query2, imdb2, tvdb_id, tmdb_id, media_type,
                            season, episode, limit2)

Results(streams, count) == [status |-> "success", streams |-> streams, count |-> count]

NoResults == Results(<<>>, None)

\* SearchOutcome with an error status of the provider passed as a success
SearchOutcomeIgnoresStatus(r) ==
    IF r.raised
    THEN [raised |-> TRUE, message |-> ExcMessage(r), results |-> NoResults]
    ELSE IF r.json.data = None
    THEN IF r.json.status # "success"
         THEN [raised |-> FALSE, message |-> <<>>, results |-> NoResults]
         ELSE [raised |-> TRUE, message |-> <<"AttributeError">>,
               results |-> NoResults]
    ELSE [raised |-> FALSE, message |-> <<>>,
          results |-> Results(Val(r.json.data), None)]

\* after the upstream call: what search_orionoid raises or returns
SearchOutcome(r) ==
    IF r.raised
    THEN [raised |-> TRUE, message |-> ExcMessage(r), results |-> NoResults]
    ELSE IF r.json.status # "success"
    THEN [raised |-> TRUE,
          message |-> <<"Orionoid API error: ",
                        IF r.json.message = None THEN "Unknown error"
                        ELSE Val(r.json.message)>>,
          results |-> NoResults]
    ELSE IF r.json.data = None
    \* results.get("data", {}) is None: .get raises AttributeError
    THEN [raised |-> TRUE, message |-> <<"AttributeError">>, results |-> NoResults]
    ELSE [raised |-> FALSE, message |-> <<>>,
          results |-> Results(Val(r.json.data), None)]

-----------------------------------------------------------------------------
(* main.api_endpoint, uncategorized search: the two results combined *)

Tag(streams, media_type) ==
    [i \in 1..Len(streams) |->
        [streams[i] EXCEPT !.media_type_tag = Some(media_type)]]

\* CombineResults failing when either search failed
CombineResultsFailsOnEither(movie_results, tv_results) ==
    IF movie_results = None \/ tv_results = None
    THEN [raised |-> TRUE, message |-> <<"Both movie and TV searches failed">>,
          results |-> NoResults]
    ELSE LET streams == Tag(Val(movie_results).streams, "movie")
                        \o Tag(Val(tv_results).streams, "show")
         IN  [raised |-> FALSE, message |-> <<>>,
              results |-> Results(streams, Some(Len(streams)))]

\* CombineResults with the streams of the Show search put first
CombineResultsShowFirst(movie_results, tv_results) ==
    LET movie_streams ==
            IF movie_results # None /\ Val(movie_results).status = "success"
            THEN Tag(Val(movie_results).streams, "movie") ELSE <<>>
        tv_streams ==
            IF tv_results # None /\ Val(tv_results).status = "success"
            THEN Tag(Val(tv_results).streams, "show") ELSE <<>>
        streams == tv_streams \o movie_streams
    IN  IF movie_results = None /\ tv_results = None
        THEN [raised |-> TRUE,
              message |-> <<"Both movie and TV searches failed">>,
              results |-> NoResults]
        ELSE [raised |-> FALSE, message |-> <<>>,
              results |-> Results(streams, Some(Len(streams)))]

\* movie_results and tv_results are None for a search that raised
CombineResults(movie_results, tv_results) ==
    LET movie_streams ==
            IF movie_results # None /\ Val(movie_results).status = "success"
            THEN Tag(Val(movie_results).streams, "movie") ELSE <<>>
        tv_streams ==
            IF tv_results # None /\ Val(tv_results).status = "success"
            THEN Tag(Val(tv_results).streams, "show") ELSE <<>>
        streams == movie_streams \o tv_streams
    IN  IF movie_results = None /\ tv_results = None
        THEN [raised |-> TRUE,
              message |-> <<"Both movie and TV searches failed">>,
              results |-> NoResults]
        ELSE [raised |-> FALSE, message |-> <<>>,
              results |-> Results(streams, Some(Len(streams)))]

-----------------------------------------------------------------------------
(* main.api_endpoint *)

\* the search criteria a request carries
Criterion(q, imdbid, tvdbid, tmdbid, season, ep) ==
    [q |-> q, imdbid |-> imdbid, tvdbid |-> tvdbid, tmdbid |-> tmdbid,
     season |-> season, ep |-> ep]

\* the parsed query parameters of a request
Request(t, apikey, cat, limit, c) ==
    [t |-> t, apikey |-> apikey, cat |-> cat, limit |-> limit, q |-> c.q,
     imdbid |-> c.imdbid, tvdbid |-> c.tvdbid, tmdbid |-> c.tmdbid,
     season |-> c.season, ep |-> c.ep]

\* The handler's position: pc is "idle" between requests, "await"
\* while an upstream search is outstanding, "done" once answered.  calls are
\* the form fields of the upstream searches issued for the request, replies
\* what the provider answered to each and returns what search_streams
\* returned or raised for each.
ApiSlot(pc, req, phase) ==
    [pc |-> pc, req |-> req, phase |-> phase, limit |-> 0, calls |-> <<>>,
     replies |-> <<>>, returns |-> <<>>, movie_results |-> None, tv_results |-> None,
     results |-> None, resp |-> None]

ApiAnswer(a, resp) == [a EXCEPT !.pc = "done", !.resp = Some(resp)]

\* ApiSearch with the upstream search issued a second time
ApiSearchTwice(a, phase, tvdb_id, tmdb_id, media_type, season, episode, limit) ==
    LET params == SearchOrionoidParams(Val(a.req).q, Val(a.req).imdbid, tvdb_id,
                                       tmdb_id, media_type, season, episode, limit)
    IN  [a EXCEPT !.pc = "await", !.phase = phase,
                  !.calls = Append(Append(@, params), params)]

\* a call of search_orionoid up to its await of search_streams
ApiSearch(a, phase, tvdb_id, tmdb_id, media_type, season, episode, limit) ==
    [a EXCEPT !.pc = "await", !.phase = phase,
              !.calls = Append(@, SearchOrionoidParams(
                            Val(a.req).q, Val(a.req).imdbid, tvdb_id, tmdb_id,
                            media_type, season, episode, limit))]

\* the parsed limit parameter: Query(100) when the request carries none
ParsedLimit(limit) == IF limit = None THEN Some(QueryDefaultLimit) ELSE limit

\* api_endpoint from its entry to its first await or its answer
ApiEntry(req) ==
    LET a == ApiSlot("run", Some(req), "none")
        limit == ClampLimit(ParsedLimit(req.limit))
        b == [a EXCEPT !.limit = limit]
    IN  IF req.t = "caps" THEN ApiAnswer(a, XmlResponse(BuildCapabilities))
        ELSE IF CheckApiKeyRaises(req.apikey)
        THEN ApiAnswer(a, HttpError(403, "Invalid API key"))
        ELSE IF ~orion_client
        THEN ApiAnswer(a, HttpError(503, "Orionoid client not initialized"))
        ELSE IF req.t = "search"
        THEN IF TruthySeq(req.cat)
             THEN LET m == CategoryMediaType(req.cat)
                  IN  IF m.raised
                      THEN ApiAnswer(b, ExceptionResponse(<<"ValueError">>))
                      ELSE ApiSearch(b, "single", None, None, m.media_type,
                                     None, None, limit)
             ELSE ApiSearch(b, "movie", None, None, "movie", None, None,
                            limit \div 2)
        ELSE IF req.t = "tvsearch"
        THEN ApiSearch(b, "single", req.tvdbid, None, "show", req.season,
                       req.ep, limit)
        ELSE IF req.t = "movie"
        THEN ApiSearch(b, "single", None, req.tmdbid, "movie", None, None, limit)
        ELSE ApiAnswer(b, UnknownFunctionResponse(req.t))

\* a request arrives at /api (or /{indexer_id}/api, which delegates) with
\* function t, key apikey, category cat, limit and search criteria c
ApiArrive(t, apikey, cat, limit, c) ==
    /\ api.pc = "idle"
    /\ api' = ApiEntry(Request(t, apikey, cat, limit, c))
    /\ UNCHANGED <<orion_client, prowlarr_api_key, now, last_successful_search,
                   health_check_cache, health_check_cache_time, hc>>

\* the outstanding upstream search ends in reply: search_orionoid resumes,
\* and api_endpoint with it, up to the next await or the answer
ApiReply(reply) ==
    /\ api.pc = "await"
    /\ LET r == SearchStreams(reply)
           o == SearchOutcome(r)
           a == [api EXCEPT !.replies = Append(@, reply),
                            !.returns = Append(@, r)]
           t == Val(api.req).t
       IN  /\ last_successful_search' =
                 IF o.raised THEN last_successful_search ELSE Some(now)
           /\ api' =
                CASE api.phase = "single" ->
                        IF o.raised
                        THEN ApiAnswer(a, ExceptionResponse(o.message))
                        ELSE ApiAnswer([a EXCEPT !.results = Some(o.results)],
                                       XmlResponse(BuildSearchResults(o.results, t)))
                  [] api.phase = "movie" ->
                        ApiSearch([a EXCEPT !.movie_results =
                                       IF o.raised THEN None ELSE Some(o.results)],
                                  "show", None, None, "show", None, None,
                                  api.limit \div 2)
                  [] api.phase = "show" ->
                        LET tv == IF o.raised THEN None ELSE Some(o.results)
                            c == CombineResults(api.movie_results, tv)
                            b == [a EXCEPT !.tv_results = tv]
                        IN  IF c.raised
                            THEN ApiAnswer(b, ExceptionResponse(c.message))
                            ELSE ApiAnswer([b EXCEPT !.results = Some(c.results)],
                                           XmlResponse(BuildSearchResults(c.results, t)))
    /\ UNCHANGED <<orion_client, prowlarr_api_key, now, health_check_cache,
                   health_check_cache_time, hc>>

\* the answer is sent and the handler returns
ApiReturn ==
    /\ api.pc = "done"
    /\ api' = ApiSlot("idle", None, "none")
    /\ UNCHANGED <<orion_client, prowlarr_api_key, now, last_successful_search,
                   health_check_cache, health_check_cache_time, hc>>

\* the media type of the outstanding upstream search
PendingType ==
    IF api.calls = <<>> THEN "movie" ELSE api.calls[Len(api.calls)].type

-----------------------------------------------------------------------------
(* main.health_check *)

\* the instants the clock takes; startup_time is the first
Instants == {1000, 1029, 1030, 1300, 1301, 1331}

startup_time == 1000

\* CacheHit with the force flag left out of the condition
CacheHitIgnoresForce(force) ==
    /\ health_check_cache # None
    /\ TruthyInt(health_check_cache_time)
    /\ now - Val(health_check_cache_time) < HealthCacheSeconds

\* the cache is served: not forced, a cached result, under 30 seconds old
CacheHit(force) ==
    /\ ~force
    /\ health_check_cache # None
    /\ TruthyInt(health_check_cache_time)
    /\ now - Val(health_check_cache_time) < HealthCacheSeconds

\* OverallStatus with the two tests in the other order
OverallStatusDegradedFirst(checks, overall_status) ==
    IF \E c \in DOMAIN checks : checks[c].status = "degraded" THEN "degraded"
    ELSE IF \E c \in DOMAIN checks : checks[c].status = "unhealthy" THEN "unhealthy"
    ELSE overall_status

\* the overall status from the component statuses; overall_status is the
\* value the checks above left
OverallStatus(checks, overall_status) ==
    IF \E c \in DOMAIN checks : checks[c].status = "unhealthy" THEN "unhealthy"
    ELSE IF \E c \in DOMAIN checks : checks[c].status = "degraded" THEN "degraded"
    ELSE overall_status

\* status_code = 503 if overall_status == "unhealthy" else 200
StatusCode(overall_status) == IF overall_status = "unhealthy" THEN 503 ELSE 200

Check(status, message, detail) ==
    [status |-> status, message |-> message, detail |-> detail]

\* the search_capability check
SearchCheck ==
    IF last_successful_search = None
    THEN Check("degraded", <<"No searches performed yet">>, None)
    ELSE IF now - Val(last_successful_search) > SearchStaleSeconds
    THEN Check("degraded",
               <<"No searches in N minutes">>,
               Some([lastSuccessfulSearch |-> Val(last_successful_search),
                     N |-> (now - Val(last_successful_search)) \div 60]))
    ELSE Check("healthy", <<"Search functionality operational">>,
               Some([lastSuccessfulSearch |-> Val(last_successful_search),
                     N |-> 0]))

\* health_check from the checks to the response: health_result is what the
\* client's health_check returned, None when there is no client
HealthResponse(health_result, lastChecked) ==
    LET hr == Val(health_result)
        orionoid_check ==
            IF health_result = None
            THEN Check("unhealthy", <<"Orionoid client not initialized">>,
                       [responseTime |-> None, lastChecked |-> lastChecked])
            ELSE Check(hr.status, hr.message,
                       [responseTime |-> hr.responseTime,
                        lastChecked |-> lastChecked])
        auth_check ==
            IF health_result = None
            THEN Check("unhealthy",
                       <<"Cannot check authentication - client not initialized">>,
                       None)
            ELSE IF hr.status = "healthy"
            THEN Check("healthy", <<"API keys are valid">>, hr.userInfo)
            ELSE Check("unhealthy", hr.message, None)
        overall_status ==
            IF health_result # None /\ hr.status = "healthy"
            THEN "healthy" ELSE "unhealthy"
        checks ==
            [orionoid_api |-> orionoid_check,
             authentication |-> auth_check,
             search_capability |-> SearchCheck,
             dependencies |->
                 Check(IF orion_client THEN "healthy" ELSE "unhealthy", <<>>,
                       None)]
        status == OverallStatus(checks, overall_status)
    IN  [status |-> status, timestamp |-> now, checks |-> checks,
         uptime |-> now - startup_time, status_code |-> StatusCode(status)]

\* The handler's position: pc is "idle" before the first request, "await"
\* while the client's health_check is outstanding, "done" once answered (the
\* answer stays until the next request arrives).  calls counts the upstream
\* calls made for the request, cached tells an answer served from the cache.
HealthSlot(pc, force) ==
    [pc |-> pc, force |-> force, start_time |-> now, calls |-> 0,
     cached |-> FALSE, reply |-> None, user_info |-> None,
     health_result |-> None, resp |-> None]

\* JSONResponse(content=..., status_code=...)
JsonResponse(content, status_code) == [http |-> status_code, content |-> content]

\* a request arrives at /health: answered from the cache, or the client's
\* health_check is awaited
HealthArrive(force) ==
    /\ hc.pc \in {"idle", "done"}
    /\ IF CacheHit(force)
       THEN /\ hc' = [HealthSlot("done", force) EXCEPT
                         !.cached = TRUE,
                         !.resp = Some(JsonResponse(
                                     Val(health_check_cache),
                                     Val(health_check_cache).status_code))]
            /\ UNCHANGED <<health_check_cache, health_check_cache_time>>
       ELSE IF orion_client
       THEN /\ hc' = [HealthSlot("await", force) EXCEPT !.calls = 1]
            /\ UNCHANGED <<health_check_cache, health_check_cache_time>>
       ELSE LET response == HealthResponse(None, now)
            IN  /\ hc' = [HealthSlot("done", force) EXCEPT
                             !.resp = Some(JsonResponse(response,
                                                        response.status_code))]
                /\ IF response.status # "unhealthy"
                   THEN /\ health_check_cache' = Some(response)
                        /\ health_check_cache_time' = Some(now)
                   ELSE UNCHANGED <<health_check_cache, health_check_cache_time>>
    /\ UNCHANGED <<orion_client, prowlarr_api_key, now, last_successful_search,
                   api>>

\* the client's health_check returns: the checks are compiled, the response
\* built, and cached unless unhealthy
HealthReply(reply) ==
    /\ hc.pc = "await"
    /\ LET health_result == ClientHealthCheck(reply, hc.start_time, now)
           response == HealthResponse(Some(health_result), hc.start_time)
       IN  /\ hc' = [hc EXCEPT !.pc = "done",
                               !.reply = Some(reply),
                               !.user_info = Some(GetUserInfo(reply)),
                               !.health_result = Some(health_result),
                               !.resp = Some(JsonResponse(response,
                                                          response.status_code))]
           /\ IF response.status # "unhealthy"
              THEN /\ health_check_cache' = Some(response)
                   /\ health_check_cache_time' = Some(now)
              ELSE UNCHANGED <<health_check_cache, health_check_cache_time>>
    /\ UNCHANGED <<orion_client, prowlarr_api_key, now, last_successful_search,
                   api>>

\* time passes
Tick ==
    /\ \E t \in Instants : t > now /\ now' = t
    /\ UNCHANGED <<orion_client, prowlarr_api_key, last_successful_search,
                   health_check_cache, health_check_cache_time, api, hc>>

-----------------------------------------------------------------------------
(* Requests and specifications *)

\* the values of the category parameter: absent, empty, TV, movie, both,
\* neither digit nor comma, a digit character int() rejects, the ends of the
\* TV range
CatInputs ==
    {None, Some(<<>>),
     Some(<<"5", "0", "3", "0">>), Some(<<"2", "0", "4", "0">>),
     Some(<<"2", "0", "4", "0", ",", "5", "0", "3", "0">>),
     Some(<<"6", "0", "0", "0", ",", "x">>),
     Some(<<"5", "9", "9", "9">>),
     Some(<<"sup2">>)}

LimitInputs == {None, Some(0), Some(-5), Some(1), Some(7), Some(2000)}

\* the search criteria of a request: none, free text, an IMDb id, a TVDB id
\* with season and episode, a TMDB id
CriteriaInputs ==
    {Criterion(None, None, None, None, None, None),
     Criterion(Some("x"), None, None, None, None, None),
     Criterion(Some(""), Some(<<"t", "t", "1">>), None, None, None, None),
     Criterion(None, None, Some("7"), None, Some(1), Some(2)),
     Criterion(None, None, None, Some("9"), Some(1), None)}

Functions == {"caps", "search", "tvsearch", "movie", "bogus"}

ApiKeyInputs == {None, Some("secret"), Some("wrong")}

Init ==
    /\ orion_client = TRUE
    /\ prowlarr_api_key \in {None, Some(""), Some("secret")}
    /\ now = startup_time
    /\ last_successful_search = None
    /\ health_check_cache = None
    /\ health_check_cache_time = None
    /\ api = ApiSlot("idle", None, "none")
    /\ hc = HealthSlot("idle", FALSE)

ApiNext ==
    \/ \E t \in Functions, apikey \in ApiKeyInputs, cat \in CatInputs,
          limit \in LimitInputs, c \in CriteriaInputs :
          ApiArrive(t, apikey, cat, limit, c)
    \/ \E reply \in SearchReplies(PendingType) : ApiReply(reply)
    \/ ApiReturn

HealthNext ==
    \/ \E force \in BOOLEAN : HealthArrive(force)
    \/ \E reply \in UserReplies : HealthReply(reply)

Next == ApiNext \/ HealthNext \/ Tick

\* the whole service
Spec == Init /\ [][Next]_vars

\* the /api router alone, over all requests
SpecApi == Init /\ [][ApiNext]_vars

\* the criteria of a search with free text
FreeText == {c \in CriteriaInputs : c.q = Some("x")}

\* the /health aggregator, the clock, and searches that succeed or time out
HealthSideNext ==
    \/ \E c \in FreeText : ApiArrive("movie", None, None, None, c)
    \/ \E reply \in {Reply("timeout", 0, "", None, None),
                     Reply("ok", 200, "success", None, Some(<<>>))} :
          ApiReply(reply)
    \/ ApiReturn
    \/ HealthNext
    \/ Tick

\* the service started with no PROWLARR_API_KEY in its settings
InitNoKey ==
    /\ orion_client = TRUE
    /\ prowlarr_api_key = None
    /\ now = startup_time
    /\ last_successful_search = None
    /\ health_check_cache = None
    /\ health_check_cache_time = None
    /\ api = ApiSlot("idle", None, "none")
    /\ hc = HealthSlot("idle", FALSE)

SpecHealth == InitNoKey /\ [][HealthSideNext]_vars

\* the search criteria a request may carry: none, free text, IMDb ids with
\* the "tt" prefix, without prefix, with another prefix, the prefix alone,
\* empty, a TVDB id with season and episode, a TMDB id, empty ids
IdCriteria ==
    {Criterion(None, None, None, None, None, None),
     Criterion(Some("x"), None, None, None, None, None),
     Criterion(Some(""), None, None, None, None, None),
     Criterion(Some(""), Some(<<"t", "t", "0", "1">>), None, None, None, None),
     Criterion(None, Some(<<"0", "1">>), None, None, None, None),
     Criterion(None, Some(<<"n", "m", "1">>), None, None, None, None),
     Criterion(None, Some(<<"t", "t">>), None, None, None, None),
     Criterion(Some("x"), Some(<<"t", "t">>), None, None, None, None),
     Criterion(None, Some(<<>>), None, None, None, None),
     Criterion(None, None, Some("7"), None, Some(1), Some(2)),
     Criterion(None, None, Some(""), Some(""), None, None),
     Criterion(None, None, None, Some("9"), None, None)}

\* the searching functions of /api over these criteria, with and without a
\* category and a limit, each upstream search timing out or returning a stream
CriteriaNext ==
    \/ \E t \in {"search", "tvsearch", "movie"},
          cat \in {None, Some(<<"5", "0", "3", "0">>)},
          limit \in {None, Some(7)}, c \in IdCriteria :
          ApiArrive(t, None, cat, limit, c)
    \/ \E reply \in {Reply("timeout", 0, "", None, None),
                     Reply("ok", 200, "success", None,
                           Some(Streams(PendingType, 1)))} :
          ApiReply(reply)
    \/ ApiReturn

SpecCriteria == InitNoKey /\ [][CriteriaNext]_vars

\* values of video.quality: left out, empty, and strings with the tokens
\* _determine_category looks for, alone and together, in either case
QualityInputs ==
    {None, Some(<<>>),
     Some(<<"2", "1", "6", "0", "p">>), Some(<<"4", "K">>), Some(<<"U", "H", "D">>),
     Some(<<"1", "0", "8", "0", "p">>), Some(<<"7", "2", "0", "p">>),
     Some(<<"H", "D">>), Some(<<"4", "8", "0", "p">>), Some(<<"s", "d">>),
     Some(<<"c", "a", "m">>), Some(<<"4", "8", "0", "h", "d">>),
     Some(<<"s", "d", "4", "k">>)}

CodecInputs == {None, Some(<<>>), Some(<<"h", "2", "6", "4">>)}

NameInputs == {None, Some(<<>>), Some(<<"f">>)}

TitleInputs == {None, Some(<<>>), Some(<<"T">>)}

\* meta.episode: left out, an empty object, season 1 episode 2
EpisodeInputs ==
    {None, Some(EpisodeInfo(None, None)), Some(EpisodeInfo(Some(1), Some(2)))}

\* the stream records a single upstream search may return
ItemRecords(media_type) ==
    {StreamRecord(<<media_type, 1>>, n, t, q, c, e) :
        n \in NameInputs, t \in TitleInputs, q \in QualityInputs,
        c \in CodecInputs, e \in EpisodeInputs}

\* the stream records either search of an uncategorized search may return
CombinedRecords(media_type) ==
    {StreamRecord(<<media_type, 1>>, Some(<<"f">>), None, q, None, e) :
        q \in {None, Some(<<"7", "2", "0", "p">>)},
        e \in {None, Some(EpisodeInfo(Some(1), Some(2)))}}

\* what the provider answers to the outstanding search: one stream record
\* out of all to a single search, up to MaxStreams records or a timeout to
\* either search of an uncategorized search
ItemReplies ==
    IF api.phase \in {"movie", "show"}
    THEN {Reply("timeout", 0, "", None, None)}
         \cup {Reply("ok", 200, "success", None, Some(streams)) :
                 streams \in UNION {[1..n -> CombinedRecords(PendingType)] :
                                      n \in 0..MaxStreams}}
    ELSE {Reply("ok", 200, "success", None, Some(<<r>>)) :
             r \in ItemRecords(PendingType)}

\* the searching functions of /api with free text, with and without a
\* category, over the stream records the provider may return
ItemsNext ==
    \/ \E t \in {"search", "tvsearch", "movie"},
          cat \in {None, Some(<<"5", "0", "3", "0">>), Some(<<"2", "0", "4", "0">>)},
          c \in FreeText :
          ApiArrive(t, None, cat, None, c)
    \/ \E reply \in ItemReplies : ApiReply(reply)
    \/ ApiReturn

SpecItems == InitNoKey /\ [][ItemsNext]_vars

\* every function of /api with free text, with every key, with and without a
\* category, next to /health
CallsNext ==
    \/ \E t \in Functions, apikey \in ApiKeyInputs,
          cat \in {None, Some(<<>>), Some(<<"5", "0", "3", "0">>), Some(<<"sup2">>)},
          c \in FreeText :
          ApiArrive(t, apikey, cat, None, c)
    \/ \E reply \in SearchReplies(PendingType) : ApiReply(reply)
    \/ ApiReturn
    \/ HealthNext

SpecCalls == Init /\ [][CallsNext]_vars

\* what the provider answers to a search: a timeout, an error status, a
\* success status without a data payload, a success status with one stream
StampReplies ==
    {Reply("timeout", 0, "", None, None),
     Reply("ok", 200, "error", None, None),
     Reply("ok", 200, "success", None, None),
     Reply("ok", 200, "success", None, Some(Streams(PendingType, 1)))}

\* every function of /api with free text and a key that is wrong when a
\* secret is configured,
\* next to /health calls that time out or succeed and the clock
StampNext ==
    \/ \E t \in Functions, apikey \in {Some("wrong")}, c \in FreeText :
          ApiArrive(t, apikey, None, None, c)
    \/ \E reply \in StampReplies : ApiReply(reply)
    \/ ApiReturn
    \/ \E force \in BOOLEAN : HealthArrive(force)
    \/ \E reply \in {Reply("timeout", 0, "", None, None),
                     Reply("ok", 200, "success", None, Some(UserData))} :
          HealthReply(reply)
    \/ Tick

SpecStamp == Init /\ [][StampNext]_vars

-----------------------------------------------------------------------------
(* Properties of /health *)

\* a request arrives at /health in this step
HealthArrives == hc.pc \in {"idle", "done"} /\ hc' # hc

\* the /health request was answered by recomputing the status
Recomputed == hc.pc = "done" /\ ~hc.cached

\* C1: after a /health call that computed an unhealthy overall result, the
\* next /health call, forced or not and whatever the cache holds, recomputes
\* the status with a fresh upstream health check and never answers from the
\* cache.
C1_UnhealthyForcesRecheck ==
    [][(Recomputed /\ Val(hc.resp).content.status = "unhealthy" /\ HealthArrives)
          => (~hc'.cached /\ hc'.pc = "await" /\ hc'.calls = 1)]_vars

\* C2: a /health call without force that arrives less than 30 seconds after a
\* cached (non-unhealthy) result was stored is answered with that cached
\* payload and its original status code, with no upstream call and the cache
\* left as it is; a /health call with force always recomputes with an
\* upstream call, whatever the cache holds.
C2_CacheServedUnlessForced ==
    [][HealthArrives =>
          /\ (~hc'.force /\ health_check_cache # None
              /\ now - Val(health_check_cache_time) < 30)
                => /\ hc'.pc = "done" /\ hc'.cached /\ hc'.calls = 0
                   /\ Val(hc'.resp).content = Val(health_check_cache)
                   /\ Val(hc'.resp).content.status # "unhealthy"
                   /\ Val(hc'.resp).content.timestamp = Val(health_check_cache_time)
                   /\ Val(hc'.resp).http = 200
                   /\ health_check_cache' = health_check_cache
                   /\ health_check_cache_time' = health_check_cache_time
          /\ hc'.force => (hc'.pc = "await" /\ ~hc'.cached /\ hc'.calls = 1)]_vars

\* a cached result was served some time after it was stored
C2_Witness ==
    /\ hc.pc = "done" /\ hc.cached /\ ~hc.force
    /\ now > Val(hc.resp).content.timestamp
    /\ Val(hc.resp).content.status = "degraded"

StatusesOf(checks) == {checks[c].status : c \in DOMAIN checks}

\* C9: in every recomputed health result the overall status is unhealthy if
\* any of the four sub-checks is unhealthy, else degraded if any is
\* degraded, else healthy; and the HTTP status is 503 exactly when the
\* overall status is unhealthy, 200 otherwise.
C9_OverallStatusAndCode ==
    Recomputed =>
        LET content == Val(hc.resp).content
            st == StatusesOf(content.checks)
        IN  /\ DOMAIN content.checks =
                  {"orionoid_api", "authentication", "search_capability",
                   "dependencies"}
            /\ content.status =
                  IF "unhealthy" \in st THEN "unhealthy"
                  ELSE IF "degraded" \in st THEN "degraded" ELSE "healthy"
            /\ Val(hc.resp).http = IF content.status = "unhealthy" THEN 503 ELSE 200
            /\ content.status_code = Val(hc.resp).http

\* a recomputed result with an unhealthy and a degraded sub-check
C9_Witness ==
    /\ Recomputed
    /\ Val(hc.resp).content.checks.orionoid_api.status = "unhealthy"
    /\ Val(hc.resp).content.checks.search_capability.status = "degraded"
    /\ Val(hc.resp).http = 503

-----------------------------------------------------------------------------
(* Properties of the upstream client *)

\* the provider's answer is a network or protocol failure
TransportFailure(reply) == reply.http \in {"timeout", "connect", "status"}

-----------------------------------------------------------------------------
(* Properties of /api *)

\* the /api request has been answered
Answered == api.pc = "done"

\* a shared secret is configured
SecretConfigured == prowlarr_api_key # None /\ Val(prowlarr_api_key) # ""

\* the request's key is not the configured secret
KeyMismatch == SecretConfigured /\ Val(api.req).apikey # prowlarr_api_key

\* the media types of the upstream searches issued for the request, in order
TypesSearched == [i \in 1..Len(api.calls) |-> api.calls[i].type]

\* the provider's answer makes the search fail: a transport failure, a status
\* other than success, or a success without a data payload
SearchFails(reply) ==
    TransportFailure(reply) \/ reply.status # "success" \/ reply.data = None

IsErrorDocument(resp, code) ==
    /\ resp.http = 200 /\ resp.media_type = "application/xml"
    /\ resp.doc.kind = "error" /\ resp.doc.code = code
    /\ resp.doc.description # <<>>

\* C3: for every limit parameter and every function, the limitcount sent
\* upstream lies in [1, max_search_limit].
C3_UpstreamLimitInRange ==
    \A i \in 1..Len(api.calls) :
        /\ api.calls[i].limitcount >= 1
        /\ api.calls[i].limitcount <= max_search_limit

\* C4: every /api request that is not rejected for authentication is
\* answered with HTTP 200 and an XML body; when its upstream search fails
\* (for an uncategorized search, when both fail) or another processing step
\* raises, the body is an error document with code 100 that carries the
\* failure's message.
C4_AlwaysXmlBody ==
    (Answered /\ Val(api.resp).http # 403) =>
        LET resp == Val(api.resp)
            failed == {i \in 1..Len(api.replies) : SearchFails(api.replies[i])}
        IN  /\ resp.http = 200 /\ resp.media_type = "application/xml"
            /\ resp.doc.kind \in {"caps", "rss", "error"}
            /\ (api.phase = "single" /\ failed # {}) =>
                  /\ IsErrorDocument(resp, 100)
                  /\ TransportFailure(api.replies[1]) =>
                        resp.doc.description[1] = api.returns[1].exc
                  /\ (api.replies[1].http = "ok" /\ api.replies[1].status = "error")
                        => resp.doc.description[1] = "Orionoid API error: "
            /\ (api.phase = "show" /\ failed = {1, 2}) => IsErrorDocument(resp, 100)
            /\ (api.phase = "none" /\ Val(api.req).t = "search")
                  => IsErrorDocument(resp, 100)

\* a categorized search whose upstream call timed out, answered
C4_Witness ==
    /\ Answered /\ api.phase = "single" /\ Val(api.req).t = "search"
    /\ api.replies[1].http = "timeout"
    /\ IsErrorDocument(Val(api.resp), 100)

\* C5: with a shared secret configured, a request whose function is not caps
\* and whose apikey is absent or differs from the secret is rejected with
\* HTTP 403, with no upstream call and no XML; no other request is rejected:
\* a caps request gets the capabilities document whatever its apikey, and
\* without a secret every apikey is accepted.
C5_AuthGatesNonCaps ==
    api.req # None =>
        LET req == Val(api.req)
        IN  /\ (req.t # "caps" /\ KeyMismatch) =>
                  /\ Answered
                  /\ Val(api.resp).http = 403
                  /\ Val(api.resp).media_type # "application/xml"
                  /\ Val(api.resp).doc.kind = "http_error"
                  /\ api.calls = <<>>
            /\ (Answered /\ req.t = "caps") =>
                  Val(api.resp) = XmlResponse(Doc("caps", 0, <<>>, 0, <<>>))
            /\ (Answered /\ ~SecretConfigured) => Val(api.resp).http # 403
            /\ (Answered /\ Val(api.resp).http = 403)
                  => (req.t # "caps" /\ KeyMismatch)

\* a search with a wrong key, rejected while a secret is configured
C5_Witness ==
    /\ Answered /\ Val(api.req).t = "search"
    /\ Val(api.req).apikey = Some("wrong") /\ prowlarr_api_key = Some("secret")
    /\ Val(api.resp).http = 403

\* C6: an authenticated request whose function is none of caps, search,
\* tvsearch, movie is answered with an error document with code 201 under
\* HTTP 200, with no upstream call.
C6_UnknownFunction ==
    (api.req # None
     /\ Val(api.req).t \notin {"caps", "search", "tvsearch", "movie"}
     /\ ~KeyMismatch) =>
        /\ Answered
        /\ IsErrorDocument(Val(api.resp), 201)
        /\ api.calls = <<>>

\* an unknown function with the right key, answered
C6_Witness ==
    /\ Answered /\ Val(api.req).t = "bogus"
    /\ SecretConfigured /\ Val(api.req).apikey = prowlarr_api_key
    /\ Val(api.resp).doc.code = 201

\* a token of the category parameter that is a decimal number
Decimal(tok) == tok # <<>> /\ \A i \in 1..Len(tok) : tok[i] \in Digits

\* the category parameter contains a code in [5000, 6000)
HasTvCode(cat) ==
    LET toks == SplitComma(cat)
    IN  \E i \in 1..Len(toks) :
            Decimal(toks[i]) /\ ToInt(toks[i]) >= 5000 /\ ToInt(toks[i]) < 6000

\* a token of digit characters that is not a decimal number
HasBadDigits(cat) ==
    LET toks == SplitComma(cat)
    IN  \E i \in 1..Len(toks) : IsDigit(toks[i]) /\ ~Decimal(toks[i])

\* an answered search request that passed authentication
SearchAnswered == Answered /\ Val(api.req).t = "search" /\ ~KeyMismatch

\* C7 as stated: a search with cat present and a code in [5000, 6000) issues
\* exactly one Show search; with cat present and no such code exactly one
\* Movie search; with cat absent one Movie and one Show search.
C7_RoutingByCategoryPresence ==
    SearchAnswered =>
        LET cat == Val(api.req).cat
        IN  TypesSearched =
                IF cat = None THEN <<"movie", "show">>
                ELSE IF HasTvCode(Val(cat)) THEN <<"show">> ELSE <<"movie">>

\* C7, amended: a search with cat absent or empty issues one Movie and one
\* Show search; with a non-empty cat one of whose digit-character tokens is
\* not a decimal number it issues none and answers an error document with
\* code 100; with any other non-empty cat it issues exactly one search, of
\* type Show if cat contains a code in [5000, 6000), else of type Movie.
C7_RoutingByCategory ==
    SearchAnswered =>
        LET cat == Val(api.req).cat
        IN  IF cat = None \/ cat = Some(<<>>)
            THEN TypesSearched = <<"movie", "show">>
            ELSE IF HasBadDigits(Val(cat))
            THEN TypesSearched = <<>> /\ IsErrorDocument(Val(api.resp), 100)
            ELSE IF HasTvCode(Val(cat)) THEN TypesSearched = <<"show">>
            ELSE TypesSearched = <<"movie">>

\* a search whose second category is a TV code, routed to the Show search
C7_Witness ==
    /\ SearchAnswered
    /\ Val(api.req).cat = Some(<<"2", "0", "4", "0", ",", "5", "0", "3", "0">>)
    /\ TypesSearched = <<"show">>
    /\ Val(api.resp).doc.kind = "rss"

\* the streams a search contributes to the combined result: none if it fails
Contributed(reply, media_type) ==
    IF SearchFails(reply) THEN <<>>
    ELSE [i \in 1..Len(Val(reply.data)) |->
             [Val(reply.data)[i] EXCEPT !.media_type_tag = Some(media_type)]]

\* C8: in an uncategorized search, if both searches fail the answer is an
\* error document with code 100; otherwise it is a success document holding
\* the streams of the searches that succeeded, the Movie search's first,
\* each tagged with the media type of the search that returned it, and the
\* combined count is the number of those streams.
C8_CombinedSearch ==
    (Answered /\ api.phase = "show") =>
        LET m == api.replies[1]
            s == api.replies[2]
            streams == Contributed(m, "movie") \o Contributed(s, "show")
            resp == Val(api.resp)
        IN  IF SearchFails(m) /\ SearchFails(s)
            THEN IsErrorDocument(resp, 100) /\ api.results = None
            ELSE /\ resp.http = 200 /\ resp.doc.kind = "rss"
                 /\ Val(api.results).status = "success"
                 /\ Val(api.results).streams = streams
                 /\ \A i \in 1..Len(streams) :
                       streams[i].media_type_tag = Some(streams[i].id[1])
                 /\ Val(api.results).count = Some(Len(streams))
                 /\ resp.doc.total = Len(streams)
                 /\ [i \in 1..Len(resp.doc.items) |-> resp.doc.items[i].guid]
                       = [i \in 1..Len(streams) |-> streams[i].id]

\* the Movie search failed and the Show search returned a stream
C8_Witness ==
    /\ Answered /\ api.phase = "show"
    /\ SearchFails(api.replies[1]) /\ ~SearchFails(api.replies[2])
    /\ Val(api.resp).doc.kind = "rss" /\ Val(api.resp).doc.total = 1
    /\ Val(api.results).streams[1].media_type_tag = Some("show")

-----------------------------------------------------------------------------
(* Properties of the search criteria sent upstream *)

\* an upstream search has been issued for the request
SearchIssued == api.req # None /\ api.calls # <<>>

\* the id starts with two letters
HasLetterPrefix(id) ==
    Len(id) >= 2 /\ id[1] \in {"t", "n", "m"} /\ id[2] \in {"t", "n", "m"}

\* an id, or no field when the id is empty
NonEmpty(id) == IF id = <<>> THEN None ELSE Some(id)

\* C11 as stated: the idimdb field sent upstream is the incoming imdbid with a
\* leading two-letter prefix stripped, the imdbid itself when it has no
\* prefix, and is left out when the imdbid is empty or absent.
C11_ImdbPrefixStripped ==
    SearchIssued =>
        LET imdbid == Val(api.req).imdbid
        IN  \A i \in 1..Len(api.calls) :
                api.calls[i].idimdb =
                    IF imdbid = None THEN None
                    ELSE IF HasLetterPrefix(Val(imdbid))
                    THEN NonEmpty(SubSeq(Val(imdbid), 3, Len(Val(imdbid))))
                    ELSE NonEmpty(Val(imdbid))

\* C11, amended: an imdbid that starts with "tt" is sent without these two
\* characters; any other imdbid, one with another prefix included, is sent
\* unchanged; and idimdb is left out when the imdbid is absent, empty, or
\* empty once stripped.
C11_ImdbTtStripped ==
    SearchIssued =>
        LET imdbid == Val(api.req).imdbid
        IN  \A i \in 1..Len(api.calls) :
                api.calls[i].idimdb =
                    IF imdbid = None THEN None
                    ELSE IF Len(Val(imdbid)) >= 2 /\ Val(imdbid)[1] = "t"
                            /\ Val(imdbid)[2] = "t"
                    THEN NonEmpty(SubSeq(Val(imdbid), 3, Len(Val(imdbid))))
                    ELSE NonEmpty(Val(imdbid))

\* a search for "tt01" was sent upstream with idimdb "01"
C11_Witness ==
    /\ SearchIssued
    /\ Val(api.req).imdbid = Some(<<"t", "t", "0", "1">>)
    /\ api.calls[1].idimdb = Some(<<"0", "1">>)

\* the upstream search is the fixed validation query with limit 1
IsValidationQuery(call) ==
    /\ call.query = Some("The Matrix") /\ call.limitcount = 1
    /\ call.idimdb = None /\ call.idtvdb = None /\ call.idtmdb = None

\* the limit of the request: 100 when it carries none (the limits requested
\* here lie between 1 and max_search_limit)
OwnLimit == IF Val(api.req).limit = None THEN 100 ELSE Val(Val(api.req).limit)

\* the limit of each upstream search: half the request's limit for an
\* uncategorized search
CallLimit ==
    IF Val(api.req).t = "search" /\ Val(api.req).cat = None
    THEN OwnLimit \div 2 ELSE OwnLimit

\* the upstream search carries the request's free text and limit
UsesOwnCriteria(call) ==
    /\ call.query = (IF Val(api.req).q \in {None, Some("")} THEN None
                     ELSE Val(api.req).q)
    /\ call.limitcount = CallLimit

\* C12 as stated: a search, tvsearch or movie request with no free text and
\* no external id (imdbid, tvdbid, tmdbid) is sent upstream as the validation
\* query with limit 1; one with free text or any external id is sent with its
\* own criteria and limit.
C12_ValidationQueryIffNoCriteria ==
    SearchIssued =>
        LET req == Val(api.req)
            carries == \/ req.q \notin {None, Some("")}
                       \/ req.imdbid \notin {None, Some(<<>>)}
                       \/ req.tvdbid \notin {None, Some("")}
                       \/ req.tmdbid \notin {None, Some("")}
        IN  \A i \in 1..Len(api.calls) :
                IF carries THEN UsesOwnCriteria(api.calls[i])
                ELSE IsValidationQuery(api.calls[i])

\* C12, amended: the request is sent upstream as the validation query with
\* limit 1 when it carries none of the criteria its function passes on (free
\* text and imdbid for every function, tvdbid for tvsearch only, tmdbid for
\* movie only); otherwise it is sent with its own criteria and limit.
C12_ValidationQueryIffNoSupportedCriteria ==
    SearchIssued =>
        LET req == Val(api.req)
            carries == \/ req.q \notin {None, Some("")}
                       \/ req.imdbid \notin {None, Some(<<>>)}
                       \/ (req.t = "tvsearch" /\ req.tvdbid \notin {None, Some("")})
                       \/ (req.t = "movie" /\ req.tmdbid \notin {None, Some("")})
        IN  \A i \in 1..Len(api.calls) :
                IF carries
                THEN /\ UsesOwnCriteria(api.calls[i])
                     /\ api.calls[i].idtvdb =
                           (IF req.t = "tvsearch" /\ req.tvdbid # Some("")
                            THEN req.tvdbid ELSE None)
                     /\ api.calls[i].idtmdb =
                           (IF req.t = "movie" /\ req.tmdbid # Some("")
                            THEN req.tmdbid ELSE None)
                ELSE IsValidationQuery(api.calls[i])

\* a request without criteria and limit 7 went upstream as the validation
\* query with limit 1
C12_Witness ==
    /\ SearchIssued /\ Val(api.req).t = "tvsearch"
    /\ Val(api.req).q = None /\ Val(api.req).imdbid = None
    /\ Val(api.req).tvdbid = None /\ Val(api.req).tmdbid = None
    /\ Val(api.req).limit = Some(7)
    /\ IsValidationQuery(api.calls[1])

\* C19: every search sent upstream carries at least one criterion: one of
\* query, idimdb, idtvdb, idtmdb is present and not empty.
C19_UpstreamHasCriterion ==
    \A i \in 1..Len(api.calls) :
        \/ api.calls[i].query \notin {None, Some("")}
        \/ api.calls[i].idimdb \notin {None, Some(<<>>)}
        \/ api.calls[i].idtvdb \notin {None, Some("")}
        \/ api.calls[i].idtmdb \notin {None, Some("")}

-----------------------------------------------------------------------------
(* Properties of the rendered items *)

\* the request was answered with a result feed
Rendered == Answered /\ Val(api.resp).doc.kind = "rss"

\* the stream records rendered, and their items
RenderedStreams == Val(api.results).streams

RenderedItems == Val(api.resp).doc.items

\* the record has neither a file name nor a source title
Nameless(stream) ==
    stream.name \in {None, Some(<<>>)} /\ stream.title \in {None, Some(<<>>)}

\* the bracketed uppercase tag of a quality or codec value, if present
TagOf(o) ==
    IF o \in {None, Some(<<>>)} THEN <<>> ELSE <<Bracketed(StrUpper(Val(o)))>>

\* C13: a stream record with neither a file name nor a source title is
\* rendered with the title "Unknown", followed by its quality and codec tags
\* when present, whatever its quality and codec.
C13_NamelessIsUnknown ==
    Rendered =>
        \A i \in 1..Len(RenderedStreams) :
            Nameless(RenderedStreams[i]) =>
                RenderedItems[i].title =
                    JoinSpace(<<Unknown>> \o TagOf(RenderedStreams[i].quality)
                                          \o TagOf(RenderedStreams[i].codec))

MovieCodes == {2000, 2030, 2040, 2060}

TvCodes == {5000, 5030, 5040, 5080}

\* the quality level by token precedence on the lowercased quality string
QualityLevel(stream) ==
    LET q == StrLower(GetStr(stream.quality))
    IN  IF \E tok \in {<<"2", "1", "6", "0">>, <<"u", "h", "d">>, <<"4", "k">>} :
              Contains(tok, q)
        THEN "UHD"
        ELSE IF \E tok \in {<<"1", "0", "8", "0">>, <<"7", "2", "0">>, <<"h", "d">>} :
                   Contains(tok, q)
        THEN "HD"
        ELSE IF \E tok \in {<<"4", "8", "0">>, <<"s", "d">>} : Contains(tok, q)
        THEN "SD"
        ELSE "base"

\* the record carries episode metadata: an episode object that is not empty
HasEpisode(stream) ==
    stream.episode # None /\ Val(stream.episode) # EpisodeInfo(None, None)

CodeOf(level, tv) ==
    CASE level = "UHD" -> IF tv THEN 5080 ELSE 2060
      [] level = "HD" -> IF tv THEN 5040 ELSE 2040
      [] level = "SD" -> IF tv THEN 5030 ELSE 2030
      [] level = "base" -> IF tv THEN 5000 ELSE 2000

\* C14: the category of every rendered item is one of the eight codes, chosen
\* by token precedence on the lowercased quality (UHD, else HD, else SD, else
\* base), the TV codes being used exactly when the function is tvsearch or
\* the record carries episode metadata; "2160p" with tvsearch gives 5080,
\* "720p" with movie 2040, "" with movie 2000.
C14_CategoryByQualityAndKind ==
    Rendered =>
        \A i \in 1..Len(RenderedStreams) :
            LET stream == RenderedStreams[i]
                category == RenderedItems[i].category
                tv == Val(api.req).t = "tvsearch" \/ HasEpisode(stream)
            IN  /\ category \in MovieCodes \cup TvCodes
                /\ category = CodeOf(QualityLevel(stream), tv)
                /\ (stream.quality = Some(<<"2", "1", "6", "0", "p">>)
                    /\ Val(api.req).t = "tvsearch") => category = 5080
                /\ (stream.quality = Some(<<"7", "2", "0", "p">>)
                    /\ Val(api.req).t = "movie" /\ ~HasEpisode(stream))
                      => category = 2040
                /\ (stream.quality = Some(<<>>)
                    /\ Val(api.req).t = "movie" /\ ~HasEpisode(stream))
                      => category = 2000

\* a movie request rendered a record of quality "UHD" with episode metadata
\* as TV/UHD
C14_Witness ==
    /\ Rendered /\ Val(api.req).t = "movie"
    /\ Len(RenderedStreams) = 1
    /\ RenderedStreams[1].quality = Some(<<"U", "H", "D">>)
    /\ HasEpisode(RenderedStreams[1])
    /\ RenderedItems[1].category = 5080

\* C15: in the answer to an uncategorized search, every item of a stream
\* tagged show-type has a TV category code and every item of a stream tagged
\* movie-type a Movie category code.
C15_TaggedItemsKeepTheirKind ==
    (Rendered /\ api.phase = "show") =>
        \A i \in 1..Len(RenderedStreams) :
            /\ RenderedStreams[i].media_type_tag = Some("show")
                  => RenderedItems[i].category \in TvCodes
            /\ RenderedStreams[i].media_type_tag = Some("movie")
                  => RenderedItems[i].category \in MovieCodes

-----------------------------------------------------------------------------
(* Properties of the order of the upstream calls *)

\* the request is an uncategorized search whose searches are under way or done
Uncategorized == api.phase \in {"movie", "show"}

\* the reply to the outstanding upstream search is consumed in this step
ReplyConsumed == api.pc = "await" /\ Len(api'.replies) = Len(api.replies) + 1

-----------------------------------------------------------------------------
(* Properties of the number of upstream calls *)

\* the request is answered without a search: caps, an unknown function, or a
\* key that is not the configured secret
NoSearchRequest ==
    \/ Val(api.req).t \notin {"search", "tvsearch", "movie"}
    \/ KeyMismatch

\* the upstream calls of a /health request: one for each recomputation, none
\* for an answer from the cache
HealthCallsOnce ==
    /\ hc.pc = "await" => hc.calls = 1
    /\ Recomputed => hc.calls = 1
    /\ (hc.pc = "done" /\ hc.cached) => hc.calls = 0

\* C17 as stated: an /api request issues no upstream call for caps, an
\* unknown function or an authentication rejection, exactly one for
\* tvsearch, movie and a search with a category, exactly two (Movie, then
\* Show) for a search without one; a /health recomputation issues exactly
\* one; and a call that failed is answered for without being issued again.
C17_CallsPerRequest ==
    /\ Answered =>
          /\ Len(api.replies) = Len(api.calls)
          /\ TypesSearched \in
                IF NoSearchRequest THEN {<<>>}
                ELSE IF Val(api.req).t = "tvsearch" THEN {<<"show">>}
                ELSE IF Val(api.req).t = "movie" THEN {<<"movie">>}
                ELSE IF Val(api.req).cat \in {None, Some(<<>>)}
                THEN {<<"movie", "show">>}
                ELSE {<<"movie">>, <<"show">>}
    /\ HealthCallsOnce

\* C17, amended: as stated, but a search with a category issues exactly one
\* upstream call only when its category parameter parses; when parsing it
\* raises (a token of digit characters that is not a decimal number) the
\* request issues none.
C17_CallsPerParsedRequest ==
    /\ Answered =>
          /\ Len(api.replies) = Len(api.calls)
          /\ TypesSearched \in
                IF NoSearchRequest THEN {<<>>}
                ELSE IF Val(api.req).t = "tvsearch" THEN {<<"show">>}
                ELSE IF Val(api.req).t = "movie" THEN {<<"movie">>}
                ELSE IF Val(api.req).cat \in {None, Some(<<>>)}
                THEN {<<"movie", "show">>}
                ELSE IF HasBadDigits(Val(Val(api.req).cat)) THEN {<<>>}
                ELSE {<<"movie">>, <<"show">>}
    /\ api.pc = "await" => Len(api.calls) = Len(api.replies) + 1
    /\ HealthCallsOnce

\* a tvsearch whose only upstream call timed out was answered with an error,
\* and a /health recomputation whose only call timed out was answered
C17_Witness ==
    /\ Answered /\ Val(api.req).t = "tvsearch"
    /\ Len(api.calls) = 1 /\ api.replies[1].http = "timeout"
    /\ IsErrorDocument(Val(api.resp), 100)
    /\ Recomputed /\ Val(hc.reply).http = "timeout" /\ hc.calls = 1

-----------------------------------------------------------------------------
(* Properties of the last-successful-search timestamp *)

\* the reply consumed in this step
ConsumedReply == api'.replies[Len(api'.replies)]

====
